---- MODULE Spec2Model ----
(***************************************************************************)
(* Restaurant recommendation service: the live (Overpass/OpenStreetMap)    *)
(* recommender of app/osm_recommend.py behind the /recommend route of      *)
(* app/main.py, and the dataset recommender of app/recommend.py with the   *)
(* offline build step of app/preprocess.py.                                *)
(*                                                                         *)
(* Numbers.  Similarities are kept in tenths (8 stands for 0.8).           *)
(* Coordinates lie on one meridian and are measured in kilometres of arc,  *)
(* so that the haversine distance of two points is the absolute difference *)
(* of their latitudes.  A score is kept as its exact numerator over a      *)
(* denominator that is the same for every hit of one request:              *)
(*   live variant     final_score * 100 * |radius|,  dist_score * |radius| *)
(*   dataset variant  final_score * 100 * max_dist,  distance_score * 100  *)
(* Python's None is the empty sequence, a present value v is <<v>>.        *)
(***************************************************************************)
EXTENDS Integers, Sequences, FiniteSets, TLC

VARIABLES
    mode,              \* which recommender the process serves: "live" | "dataset"
    pc,                \* the request in flight: "idle" (none) | "done" (answer computed)
    args,              \* the parameters bound by the route
    reply,             \* what the map service answered to this request (live)
    out,               \* what the recommender call produced
    faiss_index_file,  \* app/data/faiss.index: None or <<vectors>>
    processed_json,    \* app/data/processed.json: None or <<records>>
    pp,                \* the offline build step: None or <<records still to be dumped>>
    FAISS_INDEX,       \* module global of app/recommend.py: None or <<vectors>>
    db                 \* RestaurantRecommender.db: None or <<records>>

vars == <<mode, pc, args, reply, out, faiss_index_file, processed_json, pp,
          FAISS_INDEX, db>>

dataVars == <<faiss_index_file, processed_json, pp, FAISS_INDEX, db>>

----------------------------------------------------------------------------
(* Bounds of the model *)

MaxK == 3
MaxElements == 2
MaxRows == 2

(* Program constants *)

max_dist == 100
MissingCoordinate == 999
MissingDistance == 9999
HTTP_OK == 200

----------------------------------------------------------------------------
(* Values *)

None == <<>>
Some(v) == <<v>>

Abs(x) == IF x < 0 THEN -x ELSE x
Max(a, b) == IF b > a THEN b ELSE a
Min(a, b) == IF b < a THEN b ELSE a

Return(v) == [exc |-> "", val |-> v]
Raise(e) == [exc |-> e, val |-> <<>>]

Queries == {"pizza", "sushi"}
Names == {"Pizza Place", "Sushi Bar"}
Ks == (-1) .. MaxK
Radii == {-1000, 0, 100, 50000, 100000}
UserLats == {0}
Lons == {0}
Lats == {5, 50, 150}

----------------------------------------------------------------------------
(* Embedding provider and vector index (external libraries) *)

\* Inner product of the normalized embeddings of a query and of a description,
\* in tenths.  The sentence-embedding model is deterministic; the description
\* of a place is represented by its name.
Similarity(query, name) ==
    IF (query = "pizza" /\ name = "Pizza Place") \/ (query = "sushi" /\ name = "Sushi Bar")
    THEN 8 ELSE 2

\* The distance faiss reports for a slot it could not fill (-3.4028235e38 for
\* an inner-product index): below every score a real vector can get.
PadSim == 0 - 1000

\* The order in which Python's list.sort / sorted with reverse=True arranges
\* items with the given keys: descending, equal keys in their given order.
\* Entry p is the position the p-th item of the result had before.
DescendingOrder(keys) ==
    LET n == Len(keys)
        Pos(i) == 1 + Cardinality({j \in 1..n :
                        keys[j] > keys[i] \/ (keys[j] = keys[i] /\ j < i)})
    IN [p \in 1..n |-> CHOOSE i \in 1..n : Pos(i) = p]

\* The same without reverse=True.
AscendingOrder(keys) ==
    LET n == Len(keys)
        Pos(i) == 1 + Cardinality({j \in 1..n :
                        keys[j] < keys[i] \/ (keys[j] = keys[i] /\ j < i)})
    IN [p \in 1..n |-> CHOOSE i \in 1..n : Pos(i) = p]

\* index.search(query, k) of an IndexFlatIP holding `names`: exactly k
\* (label, distance) pairs, best first, labels 0-based; when k exceeds the
\* number of stored vectors the missing slots carry label -1.  k <= 0 is
\* rejected by the library; builds that predate the check answer k = 0 with
\* an empty row (`legacy`).
search(names, query, k, legacy) ==
    IF k < 0 \/ (k = 0 /\ ~legacy) THEN Raise("AssertionError")
    ELSE LET n == Len(names)
             all == [i \in 1..n |-> [label |-> i - 1, sim |-> Similarity(query, names[i])]]
             order == DescendingOrder([i \in 1..n |-> all[i].sim])
         IN Return([p \in 1..k |-> IF p <= n THEN all[order[p]]
                                   ELSE [label |-> -1, sim |-> PadSim]])

\* list[i] of Python for an integer i: negative i counts from the end.
IndexInRange(list, i) == -Len(list) <= i /\ i < Len(list)
PyIndex(list, i) == IF i >= 0 THEN list[i + 1] ELSE list[Len(list) + i + 1]

\* list[:k] of Python.
PyPrefix(list, k) ==
    IF k >= 0 THEN SubSeq(list, 1, Min(k, Len(list)))
    ELSE SubSeq(list, 1, Max(0, Len(list) + k))

----------------------------------------------------------------------------
(* Distance calculator *)

\* Great-circle distance in km.  With both points on one meridian
\* (lon1 = lon2) a = sin^2(dlat/2) and 2*asin(sqrt(a)) = |dlat|, so the
\* result is R*|dlat|: the difference of the latitudes in km of arc.
haversine(lat1, lon1, lat2, lon2) == Abs(lat2 - lat1)

----------------------------------------------------------------------------
(* Live variant: app/osm_recommend.py *)

\* The elements the map service may send.  json = "scalar" is an element that
\* is not a JSON object; tags = "scalar" is a tags member that is not an object.
NamedElements ==
    { [json |-> "object", tags |-> "object", id |-> 1, name |-> Some(nm),
       lat |-> Some(la), lon |-> Some(lo)] : nm \in Names, la \in Lats, lo \in Lons }
    \cup
    { [json |-> "object", tags |-> "object", id |-> 2, name |-> Some("Pizza Place"),
       lat |-> None, lon |-> None],
      [json |-> "object", tags |-> "object", id |-> 3, name |-> Some("Sushi Bar"),
       lat |-> Some(5), lon |-> None] }

NamelessElements ==
    { [json |-> "object", tags |-> tg, id |-> 4, name |-> None,
       lat |-> Some(5), lon |-> Some(lo)] : tg \in {"object", "absent"}, lo \in Lons }

BrokenElements ==
    { [json |-> "object", tags |-> "scalar", id |-> 6, name |-> None,
       lat |-> Some(5), lon |-> None],
      [json |-> "scalar", tags |-> "absent", id |-> 7, name |-> None,
       lat |-> None, lon |-> None] }

Elements == NamedElements \cup NamelessElements \cup BrokenElements

ElementLists == UNION { [1..n -> Elements] : n \in 0..MaxElements }

\* The outcomes of requests.post and the bodies of a 200 answer.
BodyKinds == {"not_json", "number", "string", "string_with_elements", "array",
              "object_without_elements", "object_elements_scalar"}

Replies ==
    { [transport |-> t, status |-> 0, body |-> "none", elements |-> <<>>] :
        t \in {"timeout", "error"} }
    \cup
    { [transport |-> "ok", status |-> s, body |-> "not_json", elements |-> <<>>] :
        s \in {429, 504} }
    \cup
    { [transport |-> "ok", status |-> HTTP_OK, body |-> b, elements |-> <<>>] :
        b \in BodyKinds }
    \cup
    { [transport |-> "ok", status |-> HTTP_OK, body |-> "object", elements |-> es] :
        es \in ElementLists }

NoReply == [transport |-> "none", status |-> 0, body |-> "none", elements |-> <<>>]

\* As __normalize_osm without the test for the name tag.
normalize_osm_keeping_nameless(node) ==
    IF node.json # "object" THEN Raise("AttributeError")
    ELSE IF node.tags = "scalar" THEN Raise("TypeError")
    ELSE Return(Some([id |-> node.id,
                      name |-> IF node.tags = "absent" \/ node.name = None
                               THEN "Unknown" ELSE node.name[1],
                      lat |-> node.lat, lon |-> node.lon]))

normalize_osm(node) ==
    IF node.json # "object" THEN Raise("AttributeError")       \* node.get
    ELSE IF node.tags = "scalar" THEN Raise("TypeError")       \* "name" not in tags
    ELSE IF node.tags = "absent" \/ node.name = None THEN Return(None)
    ELSE Return(Some([id |-> node.id, name |-> node.name[1],
                      lat |-> node.lat, lon |-> node.lon]))

\* The body of the try block of __fetch_osm_restaurants.
fetch_try(rp) ==
    IF rp.transport = "timeout" THEN Raise("Timeout")
    ELSE IF rp.transport # "ok" THEN Raise("ConnectionError")
    ELSE IF rp.status # HTTP_OK THEN Return(<<>>)
    ELSE IF rp.body = "not_json" THEN Return(<<>>)             \* inner try/except
    ELSE IF rp.body = "number" THEN Raise("TypeError")         \* "elements" not in 5
    ELSE IF rp.body \in {"string", "array", "object_without_elements"} THEN Return(<<>>)
    ELSE IF rp.body = "string_with_elements" THEN Raise("TypeError")  \* data["elements"]
    ELSE IF rp.body = "object_elements_scalar" THEN Raise("TypeError") \* not iterable
    ELSE LET normalized == [i \in 1..Len(rp.elements) |-> normalize_osm(rp.elements[i])]
             failed == {i \in 1..Len(normalized) : normalized[i].exc # ""}
         IN IF failed # {}
            THEN Raise(normalized[CHOOSE i \in failed : \A j \in failed : i <= j].exc)
            ELSE LET kept == SelectSeq([i \in 1..Len(normalized) |-> normalized[i].val],
                                       LAMBDA v : v # None)
                 IN Return([i \in 1..Len(kept) |-> kept[i][1]])

\* As __fetch_osm_restaurants without its last handler (except Exception).
fetch_without_catch_all(rp) ==
    LET r == fetch_try(rp)
    IN IF r.exc = "Timeout" THEN Return(<<>>) ELSE r

fetch_osm_restaurants(rp) ==
    LET r == fetch_try(rp)
    IN IF r.exc = "" THEN r
       ELSE IF r.exc = "Timeout" THEN Return(<<>>)
       ELSE Return(<<>>)

\* As score_hit with the distance term left out of the final score.
score_hit_without_distance(restaurants, idx, sim, user_lat, user_lon, radius) ==
    LET r == PyIndex(restaurants, idx)
    IN IF r.lat = None \/ r.lon = None THEN Raise("TypeError")
       ELSE IF radius = 0 THEN Raise("ZeroDivisionError")
       ELSE LET dist_km == haversine(user_lat, user_lon, r.lat[1], r.lon[1])
                dist_score == IF radius > 0 THEN Max(0, radius - 1000 * dist_km)
                              ELSE Max(0, 1000 * dist_km - radius)
            IN Return([id |-> r.id, name |-> r.name, lat |-> r.lat, lon |-> r.lon,
                       similarity |-> sim, distance_km |-> dist_km,
                       dist_score |-> dist_score,
                       final_score |-> 6 * sim * Abs(radius)])

\* One pass of the loop body of recommend for the hit (idx, sim).  The value
\* is r_out; the local dist_score is kept beside it so that it can be observed.
score_hit(restaurants, idx, sim, user_lat, user_lon, radius) ==
    LET r == PyIndex(restaurants, idx)
    IN IF r.lat = None \/ r.lon = None THEN Raise("TypeError")      \* lat2 - lat1
       ELSE IF radius = 0 THEN Raise("ZeroDivisionError")           \* radius / 1000
       ELSE LET dist_km == haversine(user_lat, user_lon, r.lat[1], r.lon[1])
                \* max(0, 1 - dist_km / (radius / 1000)) over |radius|
                dist_score == IF radius > 0 THEN Max(0, radius - 1000 * dist_km)
                              ELSE Max(0, 1000 * dist_km - radius)
                final_score == 6 * sim * Abs(radius) + 40 * dist_score
            IN Return([id |-> r.id, name |-> r.name, lat |-> r.lat, lon |-> r.lon,
                       similarity |-> sim, distance_km |-> dist_km,
                       dist_score |-> dist_score, final_score |-> final_score])

\* ranked.sort(key=final_score, reverse=True) with the keys the other way round.
sort_ranked_ascending(ranked) ==
    LET order == AscendingOrder([i \in 1..Len(ranked) |-> ranked[i].final_score])
    IN [p \in 1..Len(ranked) |-> ranked[order[p]]]

sort_ranked(ranked) ==
    LET order == DescendingOrder([i \in 1..Len(ranked) |-> ranked[i].final_score])
    IN [p \in 1..Len(ranked) |-> ranked[order[p]]]

Steps == {"encode_descriptions", "index_add", "encode_query", "search"}

\* recommend from the embedding of the descriptions on (restaurants non-empty
\* in the program).
rank(restaurants, user_query, user_lat, user_lon, radius, k, legacy) ==
    LET names == [i \in 1..Len(restaurants) |-> restaurants[i].name]
        found == search(names, user_query, k, legacy)
        hits == found.val
        scored == [p \in 1..Len(hits) |->
                     score_hit(restaurants, hits[p].label, hits[p].sim,
                               user_lat, user_lon, radius)]
        failed == {p \in 1..Len(hits) : scored[p].exc # ""}
        first == CHOOSE p \in failed : \A q \in failed : p <= q
        ranked == [p \in 1..Len(hits) |-> scored[p].val]
        sorted == sort_ranked(ranked)
    IN IF found.exc # ""
       THEN [outcome |-> "raised", error |-> found.exc, restaurants |-> restaurants,
             steps |-> Steps, ranked |-> <<>>, results |-> <<>>]
       ELSE IF failed # {}
       THEN [outcome |-> "raised", error |-> scored[first].exc, restaurants |-> restaurants,
             steps |-> Steps, ranked |-> SubSeq(ranked, 1, first - 1), results |-> <<>>]
       ELSE [outcome |-> "ok", error |-> "", restaurants |-> restaurants,
             steps |-> Steps, ranked |-> ranked,
             results |-> PyPrefix(sorted, k)]

\* As recommend without the early return on an empty candidate list.
recommend_without_early_return(user_query, user_lat, user_lon, radius, k, rp, legacy) ==
    LET fetched == fetch_osm_restaurants(rp)
    IN IF fetched.exc # ""
       THEN [outcome |-> "raised", error |-> fetched.exc, restaurants |-> <<>>,
             steps |-> {}, ranked |-> <<>>, results |-> <<>>]
       ELSE IF fetched.val = <<>>
       THEN [outcome |-> "raised", error |-> "IndexError", restaurants |-> <<>>,
             steps |-> {"encode_descriptions"}, ranked |-> <<>>, results |-> <<>>]
       ELSE rank(fetched.val, user_query, user_lat, user_lon, radius, k, legacy)

\* OSMRecommender.recommend, given the answer rp of the map service.
recommend(user_query, user_lat, user_lon, radius, k, rp, legacy) ==
    LET fetched == fetch_osm_restaurants(rp)
    IN IF fetched.exc # ""
       THEN [outcome |-> "raised", error |-> fetched.exc, restaurants |-> <<>>,
             steps |-> {}, ranked |-> <<>>, results |-> <<>>]
       ELSE IF fetched.val = <<>>
       THEN [outcome |-> "ok", error |-> "", restaurants |-> <<>>,
             steps |-> {}, ranked |-> <<>>, results |-> <<>>]
       ELSE rank(fetched.val, user_query, user_lat, user_lon, radius, k, legacy)

----------------------------------------------------------------------------
(* Dataset variant: app/preprocess.py and app/recommend.py *)

\* Rows of app/data/restaurants.csv.  Latitude is a number, a text that is no
\* number, or missing (NaN); the rating is present or missing.
ValidRows ==
    { [name |-> "Pizza Place", Latitude |-> [t |-> "num", v |-> 5], Longitude |-> lo,
       rating |-> Some(4)] : lo \in Lons }
    \cup
    { [name |-> nm, Latitude |-> [t |-> "num", v |-> 50], Longitude |-> lo,
       rating |-> Some(4)] : nm \in Names, lo \in Lons }
    \cup
    { [name |-> "Sushi Bar", Latitude |-> [t |-> "num", v |-> 150], Longitude |-> lo,
       rating |-> Some(1)] : lo \in Lons }

InvalidRows ==
    { [name |-> "Pizza Place", Latitude |-> [t |-> ty, v |-> 0], Longitude |-> lo,
       rating |-> Some(4)] : ty \in {"text", "nan"}, lo \in Lons }
    \cup
    { [name |-> "Sushi Bar", Latitude |-> [t |-> "num", v |-> 5], Longitude |-> lo,
       rating |-> None] : lo \in Lons }

CsvRows == ValidRows \cup InvalidRows

CsvFiles == UNION { [1..n -> CsvRows] : n \in 0..MaxRows }

\* The records of preprocess: df[[...]].dropna(), the coordinates coerced to
\* numbers and the rows that failed dropped, then to_dict(orient="records").
\* The description (and so the vector) of a record is represented by its name.
preprocess_records(csv) ==
    LET complete == SelectSeq(csv, LAMBDA row : row.Latitude.t # "nan" /\ row.rating # None)
        numeric == SelectSeq(complete, LAMBDA row : row.Latitude.t = "num")
    IN [i \in 1..Len(numeric) |->
          [name |-> numeric[i].name, Latitude |-> numeric[i].Latitude.v,
           Longitude |-> numeric[i].Longitude, Aggregate_rating |-> numeric[i].rating[1],
           description |-> numeric[i].name]]

\* One pass of the loop body of recommend_restaurants for the hit (i, sim).
score_record(records, i, sim, user_lat, user_lon) ==
    IF ~IndexInRange(records, i) THEN Raise("IndexError")           \* self.db[i]
    ELSE LET r == PyIndex(records, i)
             lat == IF "Latitude" \in DOMAIN r THEN r.Latitude ELSE MissingCoordinate
             lon == IF "Longitude" \in DOMAIN r THEN r.Longitude ELSE MissingCoordinate
             distance_km == IF lat = MissingCoordinate \/ lon = MissingCoordinate
                            THEN MissingDistance
                            ELSE haversine(user_lat, user_lon, lat, lon)
             \* max(0, 1 - distance_km / max_dist) over max_dist
             distance_score == Max(0, max_dist - distance_km)
             rating == IF "Aggregate_rating" \in DOMAIN r THEN r.Aggregate_rating ELSE 0
             final_score == 4 * sim * max_dist + 5 * rating * max_dist + 35 * distance_score
         IN Return([name |-> r.name, Latitude |-> r.Latitude, Longitude |-> r.Longitude,
                    Aggregate_rating |-> r.Aggregate_rating,
                    similarity |-> sim, distance_km |-> distance_km,
                    rating_score |-> rating, distance_score |-> distance_score,
                    final_score |-> final_score])

sorted_results(results) ==
    LET order == DescendingOrder([i \in 1..Len(results) |-> results[i].final_score])
    IN [p \in 1..Len(results) |-> results[order[p]]]

\* RestaurantRecommender.recommend_restaurants over the loaded index and records.
recommend_restaurants(query, user_lat, user_lon, k, index, records, legacy) ==
    LET found == search(index, query, k, legacy)
        hits == found.val
        scored == [p \in 1..Len(hits) |->
                     score_record(records, hits[p].label, hits[p].sim, user_lat, user_lon)]
        failed == {p \in 1..Len(hits) : scored[p].exc # ""}
        first == CHOOSE p \in failed : \A q \in failed : p <= q
        results == [p \in 1..Len(hits) |-> scored[p].val]
        sorted == sorted_results(results)
    IN IF found.exc # ""
       THEN [outcome |-> "raised", error |-> found.exc, restaurants |-> records,
             steps |-> {"encode_query", "search"}, ranked |-> <<>>, results |-> <<>>]
       ELSE IF failed # {}
       THEN [outcome |-> "raised", error |-> scored[first].exc, restaurants |-> records,
             steps |-> {"encode_query", "search"},
             ranked |-> SubSeq(results, 1, first - 1), results |-> <<>>]
       ELSE [outcome |-> "ok", error |-> "", restaurants |-> records,
             steps |-> {"encode_query", "search"}, ranked |-> results,
             results |-> PyPrefix(sorted, k)]

----------------------------------------------------------------------------
(* State machine *)

NoArgs == [query |-> "", user_lat |-> 0, user_lon |-> 0, radius |-> 0, k |-> 0]
NoOut == [outcome |-> "none", error |-> "", restaurants |-> <<>>, steps |-> {},
          ranked |-> <<>>, results |-> <<>>]

Init ==
    /\ mode \in {"live", "dataset"}
    /\ pc = "idle"
    /\ args = NoArgs
    /\ reply = NoReply
    /\ out = NoOut
    /\ faiss_index_file = None
    /\ processed_json = None
    /\ pp = None
    /\ FAISS_INDEX = None
    /\ db = None

\* GET /recommend of app/main.py: the parameters are bound, the recommender
\* runs (the map service answering rp), the answer is ready to be sent.
RecommendRoute(query, user_lat, user_lon, radius, k) ==
    /\ mode = "live"
    /\ pc = "idle"
    /\ \E rp \in Replies, legacy \in BOOLEAN :
         /\ reply' = rp
         /\ out' = recommend(query, user_lat, user_lon, radius, k, rp, legacy)
    /\ args' = [query |-> query, user_lat |-> user_lat, user_lon |-> user_lon,
                radius |-> radius, k |-> k]
    /\ pc' = "done"
    /\ UNCHANGED <<mode, dataVars>>

\* The answer (or the error) leaves the process; nothing of the request is kept.
Respond ==
    /\ pc = "done"
    /\ pc' = "idle"
    /\ args' = NoArgs
    /\ reply' = NoReply
    /\ out' = NoOut
    /\ UNCHANGED <<mode, dataVars>>

\* preprocess() up to faiss.write_index: the index file is replaced.  With no
\* row left the script raises before it writes anything.  The build is an
\* offline step: it is run before the service process imports the index.
PreprocessWriteIndex(csv) ==
    /\ mode = "dataset"
    /\ pp = None
    /\ FAISS_INDEX = None
    /\ preprocess_records(csv) # <<>>
    /\ faiss_index_file' =
         Some([i \in 1..Len(preprocess_records(csv)) |-> preprocess_records(csv)[i].description])
    /\ pp' = Some(preprocess_records(csv))
    /\ UNCHANGED <<mode, pc, args, reply, out, processed_json, FAISS_INDEX, db>>

\* preprocess() from torch.save to json.dump: the record file is replaced.
PreprocessDumpRecords ==
    /\ pp # None
    /\ processed_json' = pp
    /\ pp' = None
    /\ UNCHANGED <<mode, pc, args, reply, out, faiss_index_file, FAISS_INDEX, db>>

\* preprocess() ends between the two writes (torch.save raises, the process
\* is stopped): the record file keeps its previous content.
PreprocessAbort ==
    /\ pp # None
    /\ pp' = None
    /\ UNCHANGED <<mode, pc, args, reply, out, faiss_index_file, processed_json,
                   FAISS_INDEX, db>>

\* import of app/recommend.py: faiss.read_index raises when the file is missing.
ImportModule ==
    /\ mode = "dataset"
    /\ FAISS_INDEX = None
    /\ faiss_index_file # None
    /\ FAISS_INDEX' = faiss_index_file
    /\ UNCHANGED <<mode, pc, args, reply, out, faiss_index_file, processed_json, pp, db>>

\* RestaurantRecommender.__init__: open raises when the file is missing.
Construct ==
    /\ FAISS_INDEX # None
    /\ db = None
    /\ processed_json # None
    /\ db' = processed_json
    /\ UNCHANGED <<mode, pc, args, reply, out, faiss_index_file, processed_json, pp,
                   FAISS_INDEX>>

Started == FAISS_INDEX # None /\ db # None

\* A call of recommend_restaurants on the constructed recommender.
RecommendRestaurants(query, user_lat, user_lon, k) ==
    /\ Started
    /\ pc = "idle"
    /\ \E legacy \in BOOLEAN :
         out' = recommend_restaurants(query, user_lat, user_lon, k, FAISS_INDEX[1], db[1],
                                      legacy)
    /\ args' = [query |-> query, user_lat |-> user_lat, user_lon |-> user_lon,
                radius |-> 0, k |-> k]
    /\ pc' = "done"
    /\ UNCHANGED <<mode, reply, dataVars>>

Next ==
    \/ \E q \in Queries, la \in UserLats, lo \in Lons, ra \in Radii, k \in Ks :
         RecommendRoute(q, la, lo, ra, k)
    \/ Respond
    \/ \E csv \in CsvFiles : PreprocessWriteIndex(csv)
    \/ PreprocessDumpRecords
    \/ PreprocessAbort
    \/ ImportModule
    \/ Construct
    \/ \E q \in Queries, la \in UserLats, lo \in Lons, k \in Ks :
         RecommendRestaurants(q, la, lo, k)

Spec == Init /\ [][Next]_vars

----------------------------------------------------------------------------
(* Properties *)

LiveDone == mode = "live" /\ pc = "done"
DataDone == mode = "dataset" /\ pc = "done"

NonIncreasing(results) ==
    \A i \in 1..(Len(results) - 1) : results[i].final_score >= results[i + 1].final_score

Count(seq, x) == Cardinality({i \in DOMAIN seq : seq[i] = x})

\* The candidate record a result was made from.
LiveCandidate(r) == [id |-> r.id, name |-> r.name, lat |-> r.lat, lon |-> r.lon]
DataCandidate(r) == [name |-> r.name, Latitude |-> r.Latitude, Longitude |-> r.Longitude,
                     Aggregate_rating |-> r.Aggregate_rating, description |-> r.name]

AllCoordinatesPresent ==
    \A i \in DOMAIN out.restaurants :
        out.restaurants[i].lat # None /\ out.restaurants[i].lon # None

\* C1: a call that returns a list for a non-empty candidate set returns at
\* most k entries, with final scores non-increasing from first to last
\* (both variants).
C1_AtMostKSorted ==
    (pc = "done" /\ out.outcome = "ok" /\ out.restaurants # <<>>)
        => (Len(out.results) <= args.k /\ NonIncreasing(out.results))

\* A live call whose hits came out of the search in increasing score order and
\* were reordered.
C1_Witness ==
    /\ LiveDone /\ out.outcome = "ok"
    /\ Len(out.results) = 2 /\ args.k = 2
    /\ out.ranked[1].final_score < out.ranked[2].final_score
    /\ out.results[1].final_score > out.results[2].final_score

\* C2: with n candidates and k > n the call returns exactly the n candidates,
\* each once (stated for calls that no other defect touches: coordinates
\* present and a positive radius in the live variant, an index as long as the
\* record list in the dataset variant).
C2_FewerThanKReturnsAll ==
    /\ (LiveDone /\ Len(out.restaurants) < args.k /\ args.radius > 0
            /\ AllCoordinatesPresent)
         => /\ out.outcome = "ok"
            /\ Len(out.results) = Len(out.restaurants)
            /\ \A i \in DOMAIN out.results :
                 Count([j \in DOMAIN out.results |-> LiveCandidate(out.results[j])],
                       LiveCandidate(out.results[i]))
                   = Count(out.restaurants, LiveCandidate(out.results[i]))
    /\ (DataDone /\ Len(db[1]) < args.k /\ Len(FAISS_INDEX[1]) = Len(db[1]))
         => /\ out.outcome = "ok"
            /\ Len(out.results) = Len(db[1])
            /\ \A i \in DOMAIN out.results :
                 Count([j \in DOMAIN out.results |-> DataCandidate(out.results[j])],
                       DataCandidate(out.results[i]))
                   = Count(db[1], DataCandidate(out.results[i]))

\* The answers of the map service from which no candidate list can be taken.
BrokenElement(e) == e.json # "object" \/ e.tags = "scalar"
FailedFetch(rp) ==
    \/ rp.transport # "ok"
    \/ rp.status # HTTP_OK
    \/ rp.body # "object"
    \/ \E i \in DOMAIN rp.elements : BrokenElement(rp.elements[i])

\* C3: on a transport failure, a non-200 answer, a body that is not JSON or has
\* no elements member, or an element that cannot be normalized, the fetch
\* raises nothing and returns no candidate, and recommend completes normally
\* with an empty list.
C3_FetchDegradesToEmpty ==
    (LiveDone /\ FailedFetch(reply))
        => (out.outcome = "ok" /\ out.restaurants = <<>> /\ out.results = <<>>)

\* A 200 answer whose element list holds a usable element and one that makes
\* the normalization raise.
C3_Witness ==
    /\ LiveDone /\ args.k > 0 /\ args.radius > 0
    /\ reply.body = "object"
    /\ \E i \in DOMAIN reply.elements : reply.elements[i].json = "scalar"
    /\ \E i \in DOMAIN reply.elements : reply.elements[i] \in NamedElements
    /\ out.outcome = "ok"

\* C4: when the fetch yields no candidate, the live recommend returns an empty
\* list without raising and before any embedding, index or search step,
\* whatever the query, the radius and k.
C4_EmptyCandidatesReturnEarly ==
    (LiveDone /\ out.restaurants = <<>>)
        => (out.outcome = "ok" /\ out.results = <<>> /\ out.steps = {})

\* A well-formed answer with elements, none of them named, to a call with a
\* non-positive k and a zero radius.
C4_Witness ==
    /\ LiveDone /\ args.k < 0 /\ args.radius = 0
    /\ reply.body = "object" /\ Len(reply.elements) > 0
    /\ \A i \in DOMAIN reply.elements : reply.elements[i] \in NamelessElements
    /\ out.outcome = "ok"

\* C5: a candidate without valid coordinates never makes the request fail
\* (stated for calls with k > 0 and a positive radius; in the dataset variant
\* for an index as long as the record list).
C5_BadCoordinatesNeverFail ==
    /\ (LiveDone /\ args.k > 0 /\ args.radius > 0 /\ ~AllCoordinatesPresent)
         => out.outcome = "ok"
    /\ (DataDone /\ args.k > 0 /\ Len(FAISS_INDEX[1]) = Len(db[1]))
         => out.outcome = "ok"

\* C6: a call with k <= 0 never completes normally with a result list.
C6_InvalidKRejected ==
    (pc = "done" /\ args.k <= 0) => out.outcome = "raised"

\* C7: whenever recommend_restaurants can run, the loaded index has as many
\* vectors as there are loaded records, and vector i is the one of record i.
C7_IndexMatchesRecords ==
    Started =>
        /\ Len(FAISS_INDEX[1]) = Len(db[1])
        /\ \A i \in DOMAIN db[1] : FAISS_INDEX[1][i] = db[1][i].description

\* The element of the answer that a normalized record was made from carries a
\* name tag.
FromNamedElement(r) ==
    \E i \in DOMAIN reply.elements :
        /\ reply.elements[i].json = "object"
        /\ reply.elements[i].tags = "object"
        /\ reply.elements[i].name = Some(r.name)
        /\ reply.elements[i].id = r.id
        /\ reply.elements[i].lat = r.lat
        /\ reply.elements[i].lon = r.lon

\* C8: no record made from an element without a name tag is in the candidate
\* list of the fetch, nor in the list recommend returns.
C8_NoNamelessRecord ==
    LiveDone =>
        /\ \A i \in DOMAIN out.restaurants : FromNamedElement(out.restaurants[i])
        /\ \A i \in DOMAIN out.results : FromNamedElement(out.results[i])

\* An answer with a nameless and a named element, ranked.
C8_Witness ==
    /\ LiveDone /\ out.outcome = "ok" /\ out.results # <<>>
    /\ \E i \in DOMAIN reply.elements : reply.elements[i] \in NamelessElements
    /\ Len(out.restaurants) < Len(reply.elements)

\* The closer of two results lies (strictly) within the reference distance.
WithinReference(r) ==
    IF mode = "live" THEN 1000 * r.distance_km < args.radius
    ELSE r.distance_km < max_dist

SameSignals(a, b) ==
    /\ a.similarity = b.similarity
    /\ mode = "dataset" => a.rating_score = b.rating_score

\* C9: of two results with the same similarity (and rating), the one that is
\* closer and within the reference distance stands before the farther one.
C9_CloserFirst ==
    (pc = "done" /\ out.outcome = "ok") =>
        \A i, j \in DOMAIN out.results :
            ( /\ SameSignals(out.results[i], out.results[j])
              /\ out.results[i].distance_km < out.results[j].distance_km
              /\ WithinReference(out.results[i]) )
            => i < j

\* Two equally similar places, the farther one found first by the search, the
\* closer one returned first.
C9_Witness ==
    /\ LiveDone /\ out.outcome = "ok" /\ Len(out.results) = 2
    /\ out.ranked[1].similarity = out.ranked[2].similarity
    /\ out.ranked[1].distance_km > out.ranked[2].distance_km
    /\ 1000 * out.ranked[2].distance_km < args.radius
    /\ out.results[1] = out.ranked[2]
    /\ out.results[2] = out.ranked[1]

\* C10: for every radius the distance score of every hit lies in [0, 1], is 0
\* at or beyond the reference distance, and computing it does not make the
\* request fail (stated for k > 0 and candidates that all carry coordinates).
C10_DistanceScoreClamped ==
    /\ (LiveDone /\ args.k > 0 /\ out.restaurants # <<>> /\ AllCoordinatesPresent)
         => /\ out.outcome = "ok"
            /\ \A p \in DOMAIN out.ranked :
                 /\ 0 <= out.ranked[p].dist_score
                 /\ out.ranked[p].dist_score <= Abs(args.radius)
                 /\ (1000 * out.ranked[p].distance_km >= args.radius)
                      => out.ranked[p].dist_score = 0
    /\ (DataDone /\ out.outcome = "ok")
         => \A p \in DOMAIN out.ranked :
                 /\ 0 <= out.ranked[p].distance_score
                 /\ out.ranked[p].distance_score <= max_dist
                 /\ (out.ranked[p].distance_km >= max_dist)
                      => out.ranked[p].distance_score = 0

====
